---- MODULE Spec2Model ----
(***************************************************************************)
(* City-Zen backend: the points / level ledger (models/database.py,        *)
(* User.add_points) and the reward claim flow (blueprints/rewards.py,      *)
(* claim_reward and verify_task_completion) over the document store.       *)
(*                                                                         *)
(* Every HTTP request is one process.  A request is split at its document  *)
(* store calls (find_one / find / count_documents / insert_one /           *)
(* update_one): each store call is atomic, nothing else is.                *)
(***************************************************************************)
EXTENDS Integers, Sequences, FiniteSets, TLC

(***************************************************************************)
(* Bounds                                                                  *)
(***************************************************************************)
NRequests == 3

Requests == 1..NRequests

\* requests that SpecRace lets run in parallel
MaxRacing == 2

(***************************************************************************)
(* Data                                                                    *)
(***************************************************************************)
UserIds == {"u1", "u2"}

\* reward.get('badge_name') of a reward created without a badge
NoBadge == "None"

\* points create_post awards through add_points
PostPoints == 10

\* points passed to the ledger by callers of add_points
PointDeltas == {0, 50, 100}

\* points create_report awards through add_points
ReportPoints == 20

\* create_report: $inc of carbon_footprint_saved by 5.0 kg, in 1/100 kg
ReportCarbon == 500

\* <<points, level>> the initial user can have reached through add_points
InitLedgers == {<<0, 1>>, <<100, 1>>, <<250, 2>>}

\* badges the initial user can hold
InitBadges == {<<>>, <<"storyteller">>}

Max(a, b) == IF a >= b THEN a ELSE b

\* the rewards collection, as written by Reward.create_reward
rewards ==
    [r \in {"r_badge", "r_posts", "r_plain"} |->
        CASE r = "r_badge" -> [points_required |-> 100, badge_name |-> "eco_hero",
                               task_type |-> "manual_review", task_count |-> 1]
          [] r = "r_posts" -> [points_required |-> 50, badge_name |-> "storyteller",
                               task_type |-> "posts_created", task_count |-> 1]
          [] r = "r_plain" -> [points_required |-> 50, badge_name |-> NoBadge,
                               task_type |-> "level_reached", task_count |-> 2]]

\* reward ids a client can put in the URL
RewardIds == DOMAIN rewards \cup {"r_missing"}

\* documents in the posts, reports and bills collections taken together
MaxDocs == 2

\* the six task types verify_task_completion recognises
RecognisedTasks == {"posts_created", "reports_created", "bills_uploaded",
                    "carbon_saved", "likes_received", "level_reached"}

\* task_type of a reward: admin.create_reward stores any string
TaskTypes == RecognisedTasks \cup {"manual_review"}

\* task_count of a reward
TaskCounts == {1, 2, 3}

\* a reward document the oracle is asked about, named by <<task_type, task_count>>
OracleRewardIds == TaskTypes \X TaskCounts

OracleReward(id) ==
    [points_required |-> 0, badge_name |-> NoBadge,
     task_type |-> id[1], task_count |-> id[2]]

\* likes_count of a post or report after like_post / like_report
LikeCounts == {0, 2}

\* Post.create_post, Report.create_report: a new document has no likes
NewDoc(user_id) == [user_id |-> user_id, likes |-> <<>>, likes_count |-> 0]

\* post and report documents: owner, likes (n distinct users) and likes_count
LikedDocs ==
    {[user_id |-> o, likes |-> SubSeq(<<"u1", "u2">>, 1, n), likes_count |-> n] :
        o \in UserIds, n \in LikeCounts}

\* the collections with a like endpoint
LikedCollections == {"posts", "reports"}

\* positions a like request can name: a document that exists, one that does not
DocIds == {1, 2}

\* Bill.create_bill: a bill document; created_at is the insertion time
BillDoc(user_id, type, usage_amount, cost, created_at) ==
    [user_id |-> user_id, type |-> type, usage_amount |-> usage_amount,
     cost |-> cost, created_at |-> created_at]

\* bills a comparison is asked about
MaxBills == 3

\* the 'type' of a bill
BillTypes == {"electricity", "water"}

\* <<user_id, type, usage_amount, cost>> of the bills users enter: readings of
\* u1's electricity (manual_entry takes float(data['usage_amount']) of any
\* sign), and bills of another type and of another user
BillInputs == {<<"u1", "electricity", 0, 0>>, <<"u1", "electricity", 80, 12>>,
               <<"u1", "electricity", 100, 15>>, <<"u1", "electricity", -100, 15>>,
               <<"u1", "water", 100, 3>>, <<"u2", "electricity", 100, 15>>}

\* largest of the consecutive usage reductions calculate_carbon_savings is
\* asked about
MaxReduction == 60

\* usage_reduction: the function accepts any sign; 50, 150, 250 and 850 liters
\* of water are halfway between two hundredths of a kg

UsageReductions == (-3..MaxReduction) \cup {100, 150, 250, 850, 1000}

\* bill types calculate_carbon_savings is asked about: the three valid ones
\* and one that is not
CarbonTypes == {"electricity", "water", "gas", "solar"}

\* manual_entry: valid_types
ValidBillTypes == {"water", "electricity", "gas"}

\* <<type, usage_amount, cost>> of the JSON body of a manual entry; a field
\* that is 0 counts as missing (validate_required_fields: "not data[field]")
EntryInputs == {<<"electricity", 100, 15>>, <<"electricity", 80, 12>>,
                <<"electricity", 50, 7>>, <<"electricity", 40, 6>>, <<"electricity", 0, 0>>,
                <<"water", 100, 3>>, <<"solar", 80, 12>>}

\* manual_entry: the keys of bill_data (lines 81-89)
BillDataKeys == {"user_id", "type", "usage_amount", "usage_unit", "cost",
                 "billing_period", "file_id"}

\* manual_entry: "min(50, ...)", the most points one bill earns
MaxBillPoints == 50

\* Bill.get_usage_comparison returns None
NoComparison == [found |-> FALSE]

\* <<points, level, carbon_footprint_saved>> of a stored user: level moves
\* with add_points only, carbon with reports and bills only (5.0 kg after a
\* report, 2.0 kg after a bill)
OracleLedgers == {<<150, 1, 0>>, <<250, 2, 500>>, <<0, 3, 200>>}

VARIABLES
    users,          \* users collection: user_id -> document
    posts,          \* posts collection: sequence of documents
    reports,        \* reports collection
    bills,          \* bills collection
    notifications,  \* notifications collection
    users0,         \* history: the users collection in the initial state
    pc,             \* position of each request
    op,             \* handler each request runs
    arg_user,       \* identity (or user_id argument) of the request
    arg_reward,     \* reward_id of a claim request (the reward an oracle
                    \* call, the bill type a comparison is about)
    arg_points,     \* points argument of add_points (usage_reduction of
                    \* calculate_carbon_savings)
    frame,          \* local variables of the handler each request runs
    result          \* outcome returned by the request

store   == <<users, posts, reports, bills, notifications>>
request == <<op, arg_user, arg_reward, arg_points>>
vars    == <<users, posts, reports, bills, notifications, users0, pc, op,
             arg_user, arg_reward, arg_points, frame, result>>

\* local variables of claim_reward (user_points, user_badges, new_points) and
\* of add_points (new_points, new_level) before they are assigned
NoFrame == [user_points |-> 0, user_badges |-> <<>>, new_points |-> 0,
            new_level |-> 1]

\* User.create_user: the document of a registered user; a new user has
\* points 0, level 1 and no badges; carbon_footprint_saved is kept in 1/100 kg
\* (the amounts added to it have two decimals)
UserDoc(points, level, badges) ==
    [points |-> points, badges |-> badges, level |-> level,
     carbon_footprint_saved |-> 0]

\* u1 is registered and has earned points (and possibly a badge); u2 is not
Init ==
    /\ \E l0 \in InitLedgers, b0 \in InitBadges :
          users = [u \in {"u1"} |-> UserDoc(l0[1], l0[2], b0)]
    /\ users0 = users
    /\ posts = <<>>
    /\ reports = <<>>
    /\ bills = <<>>
    /\ notifications = <<>>
    /\ pc = [p \in Requests |-> "idle"]
    /\ op = [p \in Requests |-> "none"]
    /\ arg_user = [p \in Requests |-> "u1"]
    /\ arg_reward = [p \in Requests |-> "r_missing"]
    /\ arg_points = [p \in Requests |-> 0]
    /\ frame = [p \in Requests |-> NoFrame]
    /\ result = [p \in Requests |-> "none"]


\* any store the oracle can be asked about: up to MaxDocs posts, reports and
\* bills of either owner, u1 registered or not
InitOracle ==
    /\ \E np, nr, nb \in 0..MaxDocs :
          /\ np + nr + nb <= MaxDocs
          /\ posts \in [1..np -> LikedDocs]
          /\ reports \in [1..nr -> LikedDocs]
          /\ \E owner \in [1..nb -> UserIds] :
                bills = [i \in 1..nb |-> BillDoc(owner[i], "electricity", 100, 15, i)]
    /\ \/ users = [u \in {} |-> UserDoc(0, 1, <<>>)]
       \/ \E l0 \in OracleLedgers :
             users = [u \in {"u1"} |->
                        [UserDoc(l0[1], l0[2], <<>>)
                            EXCEPT !.carbon_footprint_saved = l0[3]]]
    /\ users0 = users
    /\ notifications = <<>>
    /\ pc = [p \in Requests |-> "idle"]
    /\ op = [p \in Requests |-> "none"]
    /\ arg_user = [p \in Requests |-> "u1"]
    /\ arg_reward = [p \in Requests |-> "r_missing"]
    /\ arg_points = [p \in Requests |-> 0]
    /\ frame = [p \in Requests |-> NoFrame]
    /\ result = [p \in Requests |-> "none"]

\* any bills collection a comparison can be asked about: up to MaxBills bills
\* in insertion order; created_at is taken before the insert is sent, so the
\* insertion order need not be the order of created_at
InitBills ==
    /\ \E n \in 0..MaxBills :
          \E input \in [1..n -> BillInputs], at \in Permutations(1..n) :
             bills = [i \in 1..n |->
                        BillDoc(input[i][1], input[i][2], input[i][3],
                                input[i][4], at[i])]
    /\ users = [u \in {"u1"} |-> UserDoc(0, 1, <<>>)]
    /\ users0 = users
    /\ posts = <<>>
    /\ reports = <<>>
    /\ notifications = <<>>
    /\ pc = [p \in Requests |-> "idle"]
    /\ op = [p \in Requests |-> "none"]
    /\ arg_user = [p \in Requests |-> "u1"]
    /\ arg_reward = [p \in Requests |-> "r_missing"]
    /\ arg_points = [p \in Requests |-> 0]
    /\ frame = [p \in Requests |-> NoFrame]
    /\ result = [p \in Requests |-> "none"]

(***************************************************************************)
(* Pure fragments of the handlers                                          *)
(***************************************************************************)
InSeq(x, s) == \E i \in 1..Len(s) : s[i] = x

\* $pull: every occurrence of x is removed from the array
Pull(s, x) == SelectSeq(s, LAMBDA y : y # x)

\* Post.like_post, Report.like_report: the update sent for a user found in
\* likes ($pull and $inc -1) or not found ($push and $inc 1)
LikeToggle(doc, user_id, liked) ==
    IF liked
    THEN [doc EXCEPT !.likes = Pull(@, user_id), !.likes_count = @ - 1]
    ELSE [doc EXCEPT !.likes = Append(@, user_id), !.likes_count = @ + 1]

SumLikes_Count(docs) == Len(docs)

RECURSIVE SumLikes(_)
SumLikes(docs) ==
    IF docs = <<>> THEN 0 ELSE Head(docs).likes_count + SumLikes(Tail(docs))

OwnedBy_All(docs, user_id) == docs

\* find({'user_id': user_id}) on a collection
OwnedBy(docs, user_id) == SelectSeq(docs, LAMBDA d : d.user_id = user_id)

InsufficientPoints_OrEqual(points, reward) == points <= reward.points_required

\* claim_reward: "if user_points < reward['points_required']"
InsufficientPoints(points, reward) == points < reward.points_required

AlreadyClaimed_FirstOnly(badges, reward) ==
    reward.badge_name # NoBadge /\ badges # <<>> /\ badges[1] = reward.badge_name

\* claim_reward: "if reward.get('badge_name') and reward['badge_name'] in user_badges"
AlreadyClaimed(badges, reward) ==
    reward.badge_name # NoBadge /\ InSeq(reward.badge_name, badges)

ClaimChecks_BadgeFirst(reward_id, points, badges) ==
    IF reward_id \notin DOMAIN rewards THEN "NotFound"
    ELSE IF AlreadyClaimed(badges, rewards[reward_id]) THEN "AlreadyClaimed"
    ELSE IF InsufficientPoints(points, rewards[reward_id]) THEN "InsufficientPoints"
    ELSE "ok"

\* claim_reward, from the reward lookup to the last check made on the loaded
\* user document: the error returned, or "ok"
ClaimChecks(reward_id, points, badges) ==
    IF reward_id \notin DOMAIN rewards THEN "NotFound"
    ELSE IF InsufficientPoints(points, rewards[reward_id]) THEN "InsufficientPoints"
    ELSE IF AlreadyClaimed(badges, rewards[reward_id]) THEN "AlreadyClaimed"
    ELSE "ok"

verify_task_completion_Recomputed(user_id, reward) ==
    LET task_type  == reward.task_type
        task_count == reward.task_count
    IN  CASE task_type = "posts_created" ->
                Len(OwnedBy(posts, user_id)) >= task_count
          [] task_type = "reports_created" ->
                Len(OwnedBy(reports, user_id)) >= task_count
          [] task_type = "bills_uploaded" ->
                Len(OwnedBy(bills, user_id)) >= task_count
          [] task_type = "carbon_saved" ->
                /\ user_id \in DOMAIN users
                /\ users[user_id].carbon_footprint_saved >= task_count * 100
          [] task_type = "likes_received" ->
                SumLikes(OwnedBy(posts, user_id)) + SumLikes(OwnedBy(reports, user_id))
                    >= task_count
          [] task_type = "level_reached" ->
                /\ user_id \in DOMAIN users
                /\ Max(1, users[user_id].points \div 100) >= task_count
          [] OTHER -> TRUE

verify_task_completion_Strict(user_id, reward) ==
    LET task_type  == reward.task_type
        task_count == reward.task_count
    IN  CASE task_type = "posts_created" ->
                Len(OwnedBy(posts, user_id)) >= task_count
          [] task_type = "reports_created" ->
                Len(OwnedBy(reports, user_id)) >= task_count
          [] task_type = "bills_uploaded" ->
                Len(OwnedBy(bills, user_id)) >= task_count
          [] task_type = "carbon_saved" ->
                /\ user_id \in DOMAIN users
                /\ users[user_id].carbon_footprint_saved >= task_count * 100
          [] task_type = "likes_received" ->
                SumLikes(OwnedBy(posts, user_id)) + SumLikes(OwnedBy(reports, user_id))
                    >= task_count
          [] task_type = "level_reached" ->
                /\ user_id \in DOMAIN users
                /\ users[user_id].level >= task_count
          [] OTHER -> FALSE

\* verify_task_completion(user_id, reward), reading the store as it is now;
\* an exception inside the try block (user.get on a missing user) gives False
verify_task_completion(user_id, reward) ==
    LET task_type  == reward.task_type
        task_count == reward.task_count
    IN  CASE task_type = "posts_created" ->
                Len(OwnedBy(posts, user_id)) >= task_count
          [] task_type = "reports_created" ->
                Len(OwnedBy(reports, user_id)) >= task_count
          [] task_type = "bills_uploaded" ->
                Len(OwnedBy(bills, user_id)) >= task_count
          [] task_type = "carbon_saved" ->
                /\ user_id \in DOMAIN users
                /\ users[user_id].carbon_footprint_saved >= task_count * 100
          [] task_type = "likes_received" ->
                SumLikes(OwnedBy(posts, user_id)) + SumLikes(OwnedBy(reports, user_id))
                    >= task_count
          [] task_type = "level_reached" ->
                /\ user_id \in DOMAIN users
                /\ users[user_id].level >= task_count
          [] OTHER -> TRUE

verify_task_try_FailOpen(user_id, reward, store_raises) ==
    IF store_raises /\ reward.task_type \in RecognisedTasks
    THEN TRUE
    ELSE verify_task_completion(user_id, reward)

\* verify_task_completion lines 122 and 169-171: every recognised task type
\* starts with a store call inside the try block; when that call raises, the
\* except clause returns False
verify_task_try(user_id, reward, store_raises) ==
    IF store_raises /\ reward.task_type \in RecognisedTasks
    THEN FALSE
    ELSE verify_task_completion(user_id, reward)

EmissionFactor_PerCubicMeter(bill_type) ==
    CASE bill_type = "electricity" -> 5000
      [] bill_type = "water" -> 3000
      [] bill_type = "gas" -> 20000
      [] OTHER -> 5000

\* calculate_carbon_savings lines 7-35: the factor, in 1/10000 kg CO2 per
\* unit: the first entry of emission_factors[bill_type] (electricity 0.5,
\* water 0.0003, gas 2.0), or default_factors.get(bill_type, 0.5)
EmissionFactor(bill_type) ==
    CASE bill_type = "electricity" -> 5000
      [] bill_type = "water" -> 3
      [] bill_type = "gas" -> 20000
      [] OTHER -> 5000

\* round(x, 2) of x given in 1/10000: the results in 1/100; a value halfway
\* between two hundredths goes to either, as its binary float decides
\* (round(0.015, 2) = 0.01, round(0.255, 2) = 0.26)
Round2(x) ==
    LET q == x \div 100
        r == x % 100
    IN  IF r < 50 THEN {q} ELSE IF r > 50 THEN {q + 1} ELSE {q, q + 1}

\* calculate_carbon_savings(bill_type, usage_reduction): the values it can
\* return, in 1/100 kg CO2
calculate_carbon_savings(bill_type, usage_reduction) ==
    Round2(usage_reduction * EmissionFactor(bill_type))

NewestFirst_Unsorted(docs) == docs

\* find(..., sort=[('created_at', DESCENDING)])
RECURSIVE NewestFirst(_)
NewestFirst(docs) ==
    IF docs = <<>> THEN <<>>
    ELSE LET i == CHOOSE k \in 1..Len(docs) :
                      \A j \in 1..Len(docs) :
                          docs[j].created_at <= docs[k].created_at
         IN  <<docs[i]>> \o NewestFirst(SubSeq(docs, 1, i - 1)
                                          \o SubSeq(docs, i + 1, Len(docs)))

\* Bill.get_usage_comparison(user_id, bill_type); percentage_change is the
\* quotient num / den
get_usage_comparison(user_id, bill_type) ==
    LET found == NewestFirst(SelectSeq(bills,
                     LAMBDA b : b.user_id = user_id /\ b.type = bill_type))
        limited == SubSeq(found, 1, IF Len(found) < 2 THEN Len(found) ELSE 2)
    IN  IF Len(limited) < 2 THEN NoComparison
        ELSE LET current == limited[1]
                 previous == limited[2]
                 usage_diff == current.usage_amount - previous.usage_amount
                 cost_diff == current.cost - previous.cost
             IN  [found |-> TRUE,
                  current_usage |-> current.usage_amount,
                  previous_usage |-> previous.usage_amount,
                  usage_difference |-> usage_diff,
                  cost_difference |-> cost_diff,
                  percentage_change |->
                      IF previous.usage_amount > 0
                      THEN [num |-> usage_diff * 100, den |-> previous.usage_amount]
                      ELSE [num |-> 0, den |-> 1]]

Abs_Signed(x) == x

\* abs()
Abs(x) == IF x < 0 THEN -x ELSE x

Min(a, b) == IF a <= b THEN a ELSE b

\* int(x) of the quotient x = num / den, den > 0: truncation towards zero
IntOf(x) == IF x.num >= 0 THEN x.num \div x.den ELSE -((-x.num) \div x.den)

PointsEarned_Uncapped(comparison) ==
    IntOf([num |-> Abs(comparison.percentage_change.num),
         den |-> comparison.percentage_change.den])

\* manual_entry line 105: min(50, int(abs(comparison['percentage_change'])))
PointsEarned(comparison) ==
    Min(MaxBillPoints,
        IntOf([num |-> Abs(comparison.percentage_change.num),
             den |-> comparison.percentage_change.den]))

EntryCredits_OrEqual(comparison) ==
    comparison # NoComparison /\ comparison.usage_difference <= 0

\* manual_entry line 95: "if comparison and comparison['usage_difference'] < 0"
EntryCredits(comparison) ==
    comparison # NoComparison /\ comparison.usage_difference < 0

\* manual_entry lines 70-78: the validation error, or "ok"
EntryValidation(type, usage_amount, cost) ==
    IF usage_amount = 0 \/ cost = 0 THEN "ValidationError"
    ELSE IF type \notin ValidBillTypes THEN "InvalidType"
    ELSE "ok"

\* manual_entry lines 117-123: the response reads bill_data['bill_id']; a key
\* bill_data does not have raises KeyError, answered by the except clause
EntryResponse == IF "bill_id" \in BillDataKeys THEN "Created" ELSE "ServerError"

\* datetime.now() of BaseModel.insert_one on the bills collection: later than
\* every bill stored
NowForBills ==
    LET stamps == {bills[i].created_at : i \in DOMAIN bills}
    IN  IF stamps = {} THEN 1
        ELSE 1 + CHOOSE m \in stamps : \A n \in stamps : n <= m

ClaimNewPoints_Swapped(points, reward) == reward.points_required - points

\* claim_reward: new_points = user_points - reward['points_required']
ClaimNewPoints(points, reward) == points - reward.points_required

\* claim_reward: user_badges after "if reward.get('badge_name'): user_badges.append(...)"
ClaimNewBadges(badges, reward) ==
    IF reward.badge_name # NoBadge THEN Append(badges, reward.badge_name) ELSE badges

ClaimSet_Push(doc, points, badges, reward) ==
    IF reward.badge_name # NoBadge
    THEN [doc EXCEPT !.points = points,
                     !.badges = Append(doc.badges, reward.badge_name)]
    ELSE [doc EXCEPT !.points = points]

ClaimSet_Inc(doc, points, badges, reward) ==
    IF reward.badge_name # NoBadge
    THEN [doc EXCEPT !.points = doc.points - reward.points_required,
                     !.badges = badges]
    ELSE [doc EXCEPT !.points = doc.points - reward.points_required]

ClaimSet_IncPush(doc, points, badges, reward) ==
    IF reward.badge_name # NoBadge
    THEN [doc EXCEPT !.points = doc.points - reward.points_required,
                     !.badges = Append(doc.badges, reward.badge_name)]
    ELSE [doc EXCEPT !.points = doc.points - reward.points_required]

ClaimSet_PointsOnly(doc, points, badges, reward) == [doc EXCEPT !.points = points]

ClaimSet_AlwaysBadges(doc, points, badges, reward) ==
    [doc EXCEPT !.points = points, !.badges = Append(badges, reward.badge_name)]

\* claim_reward: the $set of update_data on the user document
ClaimSet(doc, points, badges, reward) ==
    IF reward.badge_name # NoBadge
    THEN [doc EXCEPT !.points = points, !.badges = badges]
    ELSE [doc EXCEPT !.points = points]

NewLevel_NoFloor(points) == points \div 100

\* add_points: new_level = max(1, new_points // 100)
NewLevel(points) == Max(1, points \div 100)

\* add_points: the $set of points and level on the user document
AddPointsSet(doc, points, level) == [doc EXCEPT !.points = points, !.level = level]

(***************************************************************************)
(* Requests                                                                *)
(***************************************************************************)
\* request ids are labels: a request starts only after the lower ones have
CanStart(p) == pc[p] = "idle" /\ \A q \in Requests : q < p => pc[q] # "idle"

\* the handler answers; its local variables are gone
Return(p, outcome) ==
    /\ pc' = [pc EXCEPT ![p] = "done"]
    /\ result' = [result EXCEPT ![p] = outcome]
    /\ frame' = [frame EXCEPT ![p] = NoFrame]

\* the handler goes on to its next store call with local variables f
Goto(p, label, f) ==
    /\ pc' = [pc EXCEPT ![p] = label]
    /\ frame' = [frame EXCEPT ![p] = f]
    /\ UNCHANGED result

\* ---- claim_reward -------------------------------------------------------
\* lines 57-61: load the current user
ClaimFindUser(p, u, r) ==
    /\ CanStart(p)
    /\ op' = [op EXCEPT ![p] = "claim_reward"]
    /\ arg_user' = [arg_user EXCEPT ![p] = u]
    /\ arg_reward' = [arg_reward EXCEPT ![p] = r]
    /\ IF u \in DOMAIN users
       THEN Goto(p, "claim_find_reward",
                 [frame[p] EXCEPT !.user_points = users[u].points,
                                  !.user_badges = users[u].badges])
       ELSE Return(p, "UserNotFound")
    /\ UNCHANGED <<store, users0, arg_points>>

\* lines 64-76: load the reward, check points and badge on the loaded user
ClaimFindReward(p) ==
    /\ pc[p] = "claim_find_reward"
    /\ LET verdict == ClaimChecks(arg_reward[p], frame[p].user_points,
                                  frame[p].user_badges)
       IN  IF verdict = "ok" THEN Goto(p, "claim_verify_task", frame[p])
           ELSE Return(p, verdict)
    /\ UNCHANGED <<store, users0, request>>

ClaimVerifyTask_Unchecked(p) ==
    /\ pc[p] = "claim_verify_task"
    /\ Goto(p, "claim_update_user",
            [frame[p] EXCEPT
               !.new_points = ClaimNewPoints(frame[p].user_points,
                                             rewards[arg_reward[p]]),
               !.user_badges = ClaimNewBadges(frame[p].user_badges,
                                              rewards[arg_reward[p]])])
    /\ UNCHANGED <<store, users0, request>>

\* lines 79-89: ask the oracle, then compute the update
ClaimVerifyTask(p) ==
    /\ pc[p] = "claim_verify_task"
    /\ LET reward == rewards[arg_reward[p]]
       IN  IF verify_task_completion(arg_user[p], reward)
           THEN Goto(p, "claim_update_user",
                     [frame[p] EXCEPT
                        !.new_points = ClaimNewPoints(frame[p].user_points, reward),
                        !.user_badges = ClaimNewBadges(frame[p].user_badges, reward)])
           ELSE Return(p, "TaskIncomplete")
    /\ UNCHANGED <<store, users0, request>>

\* lines 79-81 when a store call of the oracle raises
ClaimVerifyTaskRaising(p) ==
    /\ pc[p] = "claim_verify_task"
    /\ LET reward == rewards[arg_reward[p]]
       IN  IF verify_task_try(arg_user[p], reward, TRUE)
           THEN Goto(p, "claim_update_user",
                     [frame[p] EXCEPT
                        !.new_points = ClaimNewPoints(frame[p].user_points, reward),
                        !.user_badges = ClaimNewBadges(frame[p].user_badges, reward)])
           ELSE Return(p, "TaskIncomplete")
    /\ UNCHANGED <<store, users0, request>>

\* lines 92-95: one update_one with $set of points (and badges)
ClaimUpdateUser(p) ==
    /\ pc[p] = "claim_update_user"
    /\ users' = IF arg_user[p] \in DOMAIN users
                THEN [users EXCEPT ![arg_user[p]] =
                         ClaimSet(@, frame[p].new_points, frame[p].user_badges,
                                  rewards[arg_reward[p]])]
                ELSE users   \* no document matched: nothing written
    /\ Goto(p, "claim_notify", frame[p])
    /\ UNCHANGED <<posts, reports, bills, notifications, users0, request>>

ClaimNotify_Silent(p) ==
    /\ pc[p] = "claim_notify"
    /\ Return(p, "Success")
    /\ UNCHANGED <<store, users0, request>>

\* lines 98-112: create the notification and answer
ClaimNotify(p) ==
    /\ pc[p] = "claim_notify"
    /\ notifications' = Append(notifications,
                               [user_id |-> arg_user[p], type |-> "reward",
                                reward_id |-> arg_reward[p]])
    /\ Return(p, "Success")
    /\ UNCHANGED <<users, posts, reports, bills, users0, request>>

\* ---- User.add_points ----------------------------------------------------
AddPointsFind_AlwaysTrue(p, u, d) ==
    IF u \in DOMAIN users
    THEN Goto(p, "add_points_update",
              [frame[p] EXCEPT !.new_points = users[u].points + d,
                               !.new_level = NewLevel(users[u].points + d)])
    ELSE Return(p, IF op'[p] = "add_points" THEN "True" ELSE "Created")

\* lines 109-112 and 119: find the user, compute new_points and new_level;
\* False when there is none (create_post ignores the value and answers 201)
AddPointsFind(p, u, d) ==
    IF u \in DOMAIN users
    THEN Goto(p, "add_points_update",
              [frame[p] EXCEPT !.new_points = users[u].points + d,
                               !.new_level = NewLevel(users[u].points + d)])
    ELSE Return(p, IF op'[p] = "add_points" THEN "False" ELSE "Created")

\* addPoints(userId, points) called on the ledger
AddPoints(p, u, d) ==
    /\ CanStart(p)
    /\ op' = [op EXCEPT ![p] = "add_points"]
    /\ arg_user' = [arg_user EXCEPT ![p] = u]
    /\ arg_points' = [arg_points EXCEPT ![p] = d]
    /\ AddPointsFind(p, u, d)
    /\ UNCHANGED <<store, users0, arg_reward>>

\* lines 114-118: update_one with $set of points and level, return True
AddPointsUpdate(p) ==
    /\ pc[p] = "add_points_update"
    /\ users' = IF arg_user[p] \in DOMAIN users
                THEN [users EXCEPT ![arg_user[p]] =
                         AddPointsSet(@, frame[p].new_points, frame[p].new_level)]
                ELSE users   \* no document matched: nothing written
    /\ Return(p, IF op[p] = "add_points" THEN "True" ELSE "Created")
    /\ UNCHANGED <<posts, reports, bills, notifications, users0, request>>

\* ---- create_post --------------------------------------------------------
\* posts.py lines 17-21: load the current user
CreatePostFindUser(p, u) ==
    /\ CanStart(p)
    /\ op' = [op EXCEPT ![p] = "create_post"]
    /\ arg_user' = [arg_user EXCEPT ![p] = u]
    /\ arg_points' = [arg_points EXCEPT ![p] = PostPoints]
    /\ IF u \in DOMAIN users THEN Goto(p, "post_insert", frame[p])
       ELSE Return(p, "UserNotFound")
    /\ UNCHANGED <<store, users0, arg_reward>>

\* posts.py line 36, Post.create_post: insert the post document
CreatePostInsert(p) ==
    /\ pc[p] = "post_insert"
    /\ posts' = Append(posts, NewDoc(arg_user[p]))
    /\ Goto(p, "post_add_points", frame[p])
    /\ UNCHANGED <<users, reports, bills, notifications, users0, request>>

\* posts.py line 38: user_model.add_points(current_user['user_id'], 10), find
CreatePostAddPoints(p) ==
    /\ pc[p] = "post_add_points"
    /\ AddPointsFind(p, arg_user[p], arg_points[p])
    /\ UNCHANGED <<store, users0, request>>

\* ---- verify_task_completion called on its own ----------------------------
\* the oracle is asked about user u and the reward named id
OracleCall(p, u, id, store_raises) ==
    /\ CanStart(p)
    /\ op' = [op EXCEPT ![p] = "verify_task_completion"]
    /\ arg_user' = [arg_user EXCEPT ![p] = u]
    /\ arg_reward' = [arg_reward EXCEPT ![p] = id]
    /\ Return(p, IF verify_task_try(u, OracleReward(id), store_raises)
                 THEN "True" ELSE "False")
    /\ UNCHANGED <<store, users0, arg_points>>

\* ---- Bill.get_usage_comparison called on its own -------------------------
UsageComparison(p, u, t) ==
    /\ CanStart(p)
    /\ op' = [op EXCEPT ![p] = "get_usage_comparison"]
    /\ arg_user' = [arg_user EXCEPT ![p] = u]
    /\ arg_reward' = [arg_reward EXCEPT ![p] = t]
    /\ Return(p, get_usage_comparison(u, t))
    /\ UNCHANGED <<store, users0, arg_points>>

\* ---- calculate_carbon_savings called on its own ---------------------------
CarbonSavings(p, t, reduction) ==
    /\ CanStart(p)
    /\ op' = [op EXCEPT ![p] = "calculate_carbon_savings"]
    /\ arg_reward' = [arg_reward EXCEPT ![p] = t]
    /\ arg_points' = [arg_points EXCEPT ![p] = reduction]
    /\ \E saved \in calculate_carbon_savings(t, reduction) : Return(p, saved)
    /\ UNCHANGED <<store, users0, arg_user>>

\* ---- manual_entry (bills.py) ----------------------------------------------
\* lines 61-78: load the current user, validate the body
ManualEntryFindUser(p, u, input) ==
    /\ CanStart(p)
    /\ op' = [op EXCEPT ![p] = "manual_entry"]
    /\ arg_user' = [arg_user EXCEPT ![p] = u]
    /\ arg_reward' = [arg_reward EXCEPT ![p] = input[1]]
    /\ arg_points' = [arg_points EXCEPT ![p] = input[2]]
    /\ IF u \notin DOMAIN users THEN Return(p, "UserNotFound")
       ELSE IF EntryValidation(input[1], input[2], input[3]) # "ok"
       THEN Return(p, EntryValidation(input[1], input[2], input[3]))
       ELSE Goto(p, "entry_insert", [cost |-> input[3]])
    /\ UNCHANGED <<store, users0>>

\* line 91, Bill.create_bill: insert the bill
ManualEntryInsert(p) ==
    /\ pc[p] = "entry_insert"
    /\ bills' = Append(bills, BillDoc(arg_user[p], arg_reward[p], arg_points[p],
                                      frame[p].cost, NowForBills))
    /\ Goto(p, "entry_compare", [bill_at |-> NowForBills])
    /\ UNCHANGED <<users, posts, reports, notifications, users0, request>>

\* lines 94-96: compare the last two bills; without a reduction the handler
\* goes straight to its response
ManualEntryCompare(p) ==
    /\ pc[p] = "entry_compare"
    /\ LET comparison == get_usage_comparison(arg_user[p], arg_reward[p])
       IN  IF EntryCredits(comparison)
           THEN \E carbon_saved \in
                      calculate_carbon_savings(arg_reward[p],
                                               Abs(comparison.usage_difference)) :
                    Goto(p, "entry_inc_carbon",
                         [bill_at |-> frame[p].bill_at,
                          comparison |-> comparison,
                          carbon_saved |-> carbon_saved])
           ELSE Return(p, EntryResponse)
    /\ UNCHANGED <<store, users0, request>>

\* lines 99-105: $inc carbon_footprint_saved, then compute the points
ManualEntryIncCarbon(p) ==
    /\ pc[p] = "entry_inc_carbon"
    /\ users' = IF arg_user[p] \in DOMAIN users
                THEN [users EXCEPT ![arg_user[p]].carbon_footprint_saved =
                         @ + frame[p].carbon_saved]
                ELSE users   \* no document matched: nothing written
    /\ Goto(p, "entry_add_points",
            [carbon_saved |-> frame[p].carbon_saved,
             points_earned |-> PointsEarned(frame[p].comparison)])
    /\ UNCHANGED <<posts, reports, bills, notifications, users0, request>>

\* line 106, User.add_points lines 109-112: find the user, compute the update
ManualEntryAddPoints(p) ==
    /\ pc[p] = "entry_add_points"
    /\ IF arg_user[p] \in DOMAIN users
       THEN Goto(p, "entry_points_update",
                 [carbon_saved |-> frame[p].carbon_saved,
                  points_earned |-> frame[p].points_earned,
                  new_points |-> users[arg_user[p]].points + frame[p].points_earned,
                  new_level |-> NewLevel(users[arg_user[p]].points
                                            + frame[p].points_earned)])
       ELSE Goto(p, "entry_notify",
                 [carbon_saved |-> frame[p].carbon_saved,
                  points_earned |-> frame[p].points_earned])
    /\ UNCHANGED <<store, users0, request>>

\* User.add_points lines 114-118: $set points and level
ManualEntryPointsUpdate(p) ==
    /\ pc[p] = "entry_points_update"
    /\ users' = IF arg_user[p] \in DOMAIN users
                THEN [users EXCEPT ![arg_user[p]] =
                         AddPointsSet(@, frame[p].new_points, frame[p].new_level)]
                ELSE users   \* no document matched: nothing written
    /\ Goto(p, "entry_notify",
            [carbon_saved |-> frame[p].carbon_saved,
             points_earned |-> frame[p].points_earned])
    /\ UNCHANGED <<posts, reports, bills, notifications, users0, request>>

\* lines 109-123: create the achievement notification and answer
ManualEntryNotify(p) ==
    /\ pc[p] = "entry_notify"
    /\ notifications' = Append(notifications,
                               [user_id |-> arg_user[p], type |-> "achievement",
                                carbon_saved |-> frame[p].carbon_saved,
                                points_earned |-> frame[p].points_earned])
    /\ Return(p, EntryResponse)
    /\ UNCHANGED <<users, posts, reports, bills, users0, request>>

\* ---- create_report (reports.py) -------------------------------------------
\* lines 16-20: load the current user
CreateReportFindUser(p, u) ==
    /\ CanStart(p)
    /\ op' = [op EXCEPT ![p] = "create_report"]
    /\ arg_user' = [arg_user EXCEPT ![p] = u]
    /\ arg_points' = [arg_points EXCEPT ![p] = ReportPoints]
    /\ IF u \in DOMAIN users THEN Goto(p, "report_insert", frame[p])
       ELSE Return(p, "UserNotFound")
    /\ UNCHANGED <<store, users0, arg_reward>>

\* line 33, Report.create_report: insert the report document
CreateReportInsert(p) ==
    /\ pc[p] = "report_insert"
    /\ reports' = Append(reports, NewDoc(arg_user[p]))
    /\ Goto(p, "report_add_points", frame[p])
    /\ UNCHANGED <<users, posts, bills, notifications, users0, request>>

\* line 35, User.add_points lines 109-112: find the user, compute the update
CreateReportAddPoints(p) ==
    /\ pc[p] = "report_add_points"
    /\ IF arg_user[p] \in DOMAIN users
       THEN Goto(p, "report_points_update",
                 [frame[p] EXCEPT
                     !.new_points = users[arg_user[p]].points + arg_points[p],
                     !.new_level = NewLevel(users[arg_user[p]].points
                                               + arg_points[p])])
       ELSE Goto(p, "report_inc_carbon", frame[p])
    /\ UNCHANGED <<store, users0, request>>

\* User.add_points lines 114-118: $set points and level
CreateReportPointsUpdate(p) ==
    /\ pc[p] = "report_points_update"
    /\ users' = IF arg_user[p] \in DOMAIN users
                THEN [users EXCEPT ![arg_user[p]] =
                         AddPointsSet(@, frame[p].new_points, frame[p].new_level)]
                ELSE users   \* no document matched: nothing written
    /\ Goto(p, "report_inc_carbon", frame[p])
    /\ UNCHANGED <<posts, reports, bills, notifications, users0, request>>

\* lines 37-45: $inc carbon_footprint_saved by 5.0 and answer 201
CreateReportIncCarbon(p) ==
    /\ pc[p] = "report_inc_carbon"
    /\ users' = IF arg_user[p] \in DOMAIN users
                THEN [users EXCEPT ![arg_user[p]].carbon_footprint_saved =
                         @ + ReportCarbon]
                ELSE users   \* no document matched: nothing written
    /\ Return(p, "Created")
    /\ UNCHANGED <<posts, reports, bills, notifications, users0, request>>

\* ---- like_post (posts.py), like_report (reports.py) -----------------------
\* the collection a like request is about
Collection(p) == IF arg_reward[p][1] = "posts" THEN posts ELSE reports

\* find_one by post_id / report_id found a document
DocFound(p) == arg_reward[p][2] \in DOMAIN Collection(p)

LikedDoc(p) == Collection(p)[arg_reward[p][2]]

\* posts.py lines 99-105, reports.py lines 116-122: load the current user
LikeFindUser(p, u, c, i) ==
    /\ CanStart(p)
    /\ op' = [op EXCEPT ![p] = "like"]
    /\ arg_user' = [arg_user EXCEPT ![p] = u]
    /\ arg_reward' = [arg_reward EXCEPT ![p] = <<c, i>>]
    /\ IF u \in DOMAIN users THEN Goto(p, "like_find", [liked |-> FALSE])
       ELSE Return(p, "UserNotFound")
    /\ UNCHANGED <<store, users0, arg_points>>

\* like_post / like_report: find_one, then "user_id in likes"
LikeFind(p) ==
    /\ pc[p] = "like_find"
    /\ IF DocFound(p)
       THEN Goto(p, "like_update", [liked |-> InSeq(arg_user[p], LikedDoc(p).likes)])
       ELSE Return(p, "NotFound")
    /\ UNCHANGED <<store, users0, request>>

\* like_post / like_report: update_one with $pull/$inc -1 or $push/$inc 1
LikeUpdate(p) ==
    /\ pc[p] = "like_update"
    /\ LET i == arg_reward[p][2]
       IN  IF arg_reward[p][1] = "posts"
           THEN /\ posts' = IF DocFound(p)
                            THEN [posts EXCEPT ![i] =
                                     LikeToggle(@, arg_user[p], frame[p].liked)]
                            ELSE posts
                /\ UNCHANGED reports
           ELSE /\ reports' = IF DocFound(p)
                              THEN [reports EXCEPT ![i] =
                                       LikeToggle(@, arg_user[p], frame[p].liked)]
                              ELSE reports
                /\ UNCHANGED posts
    /\ Goto(p, "like_refetch", frame[p])
    /\ UNCHANGED <<users, bills, notifications, users0, request>>

\* posts.py lines 112-113, reports.py lines 130-131: load the document again
\* and see whether the user is in likes now
LikeRefetch(p) ==
    /\ pc[p] = "like_refetch"
    /\ LET liked == InSeq(arg_user[p], LikedDoc(p).likes)
       IN  IF liked /\ LikedDoc(p).user_id # arg_user[p]
           THEN Goto(p, "like_notify", [liked |-> liked])
           ELSE Return(p, IF liked THEN "Liked" ELSE "Unliked")
    /\ UNCHANGED <<store, users0, request>>

\* posts.py lines 115-128, reports.py lines 134-147: notify the owner, answer
LikeNotify(p) ==
    /\ pc[p] = "like_notify"
    /\ notifications' = Append(notifications,
                               [user_id |-> LikedDoc(p).user_id, type |-> "like",
                                liker_id |-> arg_user[p]])
    /\ Return(p, "Liked")
    /\ UNCHANGED <<users, posts, reports, bills, users0, request>>

(***************************************************************************)
(* Specifications                                                          *)
(***************************************************************************)
Step(p) ==
    \/ \E u \in UserIds, r \in RewardIds : ClaimFindUser(p, u, r)
    \/ ClaimFindReward(p)
    \/ ClaimVerifyTask(p)
    \/ ClaimUpdateUser(p)
    \/ ClaimNotify(p)
    \/ \E u \in UserIds, d \in PointDeltas : AddPoints(p, u, d)
    \/ AddPointsUpdate(p)
    \/ \E u \in UserIds : CreatePostFindUser(p, u)
    \/ CreatePostInsert(p)
    \/ CreatePostAddPoints(p)

\* requests run in parallel, interleaved at their store calls
Next == \E p \in Requests : Step(p)

Spec == Init /\ [][Next]_vars

\* a request is in flight
Running(p) == pc[p] \notin {"idle", "done"}

\* no other request is in flight
Alone(p) == \A q \in Requests \ {p} : ~Running(q)

\* requests run one at a time, each from its first store call to its answer:
\* a request starts only when no other is in flight
NextAlone ==
    \E p \in Requests :
        \/ \E u \in UserIds, r \in RewardIds : Alone(p) /\ ClaimFindUser(p, u, r)
        \/ ClaimFindReward(p)
        \/ ClaimVerifyTask(p)
        \/ ClaimUpdateUser(p)
        \/ ClaimNotify(p)
        \/ \E u \in UserIds, d \in PointDeltas : Alone(p) /\ AddPoints(p, u, d)
        \/ AddPointsUpdate(p)
        \/ \E u \in UserIds : Alone(p) /\ CreatePostFindUser(p, u)
        \/ CreatePostInsert(p)
        \/ CreatePostAddPoints(p)

SpecAlone == Init /\ [][NextAlone]_vars

\* parallel requests of registered users that read or write the ledger
NextRace ==
    \E p \in Requests \cap 1..MaxRacing :
        \/ \E u \in DOMAIN users, r \in RewardIds : ClaimFindUser(p, u, r)
        \/ ClaimFindReward(p)
        \/ ClaimVerifyTask(p)
        \/ ClaimUpdateUser(p)
        \/ ClaimNotify(p)
        \/ \E u \in DOMAIN users, d \in PointDeltas : AddPoints(p, u, d)
        \/ AddPointsUpdate(p)
        \/ \E u \in DOMAIN users : CreatePostFindUser(p, u)
        \/ CreatePostInsert(p)
        \/ CreatePostAddPoints(p)

SpecRace == Init /\ [][NextRace]_vars

\* no request has started yet
NoneStarted == \A q \in Requests : pc[q] = "idle"

\* one request on the store as InitOracle drew it: a call of the oracle, or a
\* claim whose call of the oracle may meet a store that raises
NextOracle ==
    \E p \in Requests :
        \/ \E u \in UserIds, id \in OracleRewardIds, store_raises \in BOOLEAN :
              NoneStarted /\ OracleCall(p, u, id, store_raises)
        \/ \E u \in UserIds, r \in RewardIds : NoneStarted /\ ClaimFindUser(p, u, r)
        \/ ClaimFindReward(p)
        \/ ClaimVerifyTask(p)
        \/ ClaimVerifyTaskRaising(p)
        \/ ClaimUpdateUser(p)
        \/ ClaimNotify(p)

SpecOracle == InitOracle /\ [][NextOracle]_vars

\* one comparison on the bills as InitBills drew them
NextBills ==
    \E p \in Requests, u \in UserIds, t \in BillTypes :
        NoneStarted /\ UsageComparison(p, u, t)

SpecBills == InitBills /\ [][NextBills]_vars

\* one call of calculate_carbon_savings
NextCarbon ==
    \E p \in Requests, t \in CarbonTypes, reduction \in UsageReductions :
        NoneStarted /\ CarbonSavings(p, t, reduction)

SpecCarbon == Init /\ [][NextCarbon]_vars

\* manual entries served in parallel
NextEntry ==
    \E p \in Requests \cap 1..MaxRacing :
        \/ \E u \in UserIds, input \in EntryInputs : ManualEntryFindUser(p, u, input)
        \/ ManualEntryInsert(p)
        \/ ManualEntryCompare(p)
        \/ ManualEntryIncCarbon(p)
        \/ ManualEntryAddPoints(p)
        \/ ManualEntryPointsUpdate(p)
        \/ ManualEntryNotify(p)

SpecEntry == Init /\ [][NextEntry]_vars

\* u1 has recorded an electricity bill of 100 kWh before
InitLedger ==
    /\ \E l0 \in InitLedgers, b0 \in InitBadges :
          users = [u \in {"u1"} |-> UserDoc(l0[1], l0[2], b0)]
    /\ users0 = users
    /\ posts = <<>>
    /\ reports = <<>>
    /\ bills = <<BillDoc("u1", "electricity", 100, 15, 1)>>
    /\ notifications = <<>>
    /\ pc = [p \in Requests |-> "idle"]
    /\ op = [p \in Requests |-> "none"]
    /\ arg_user = [p \in Requests |-> "u1"]
    /\ arg_reward = [p \in Requests |-> "r_missing"]
    /\ arg_points = [p \in Requests |-> 0]
    /\ frame = [p \in Requests |-> NoFrame]
    /\ result = [p \in Requests |-> "none"]

\* manual entries after that bill: a lower and a higher usage
LedgerInputs == {<<"electricity", 80, 12>>, <<"electricity", 120, 18>>}

\* every operation that writes the user record, in parallel: manual entries,
\* report creation, add_points and claims of registered users
NextLedger ==
    \E p \in Requests \cap 1..MaxRacing :
        \/ \E u \in DOMAIN users, input \in LedgerInputs : ManualEntryFindUser(p, u, input)
        \/ ManualEntryInsert(p)
        \/ ManualEntryCompare(p)
        \/ ManualEntryIncCarbon(p)
        \/ ManualEntryAddPoints(p)
        \/ ManualEntryPointsUpdate(p)
        \/ ManualEntryNotify(p)
        \/ \E u \in DOMAIN users : CreateReportFindUser(p, u)
        \/ CreateReportInsert(p)
        \/ CreateReportAddPoints(p)
        \/ CreateReportPointsUpdate(p)
        \/ CreateReportIncCarbon(p)
        \/ \E u \in DOMAIN users, d \in PointDeltas : AddPoints(p, u, d)
        \/ AddPointsUpdate(p)
        \/ \E u \in DOMAIN users, r \in RewardIds : ClaimFindUser(p, u, r)
        \/ ClaimFindReward(p)
        \/ ClaimVerifyTask(p)
        \/ ClaimUpdateUser(p)
        \/ ClaimNotify(p)

SpecLedger == InitLedger /\ [][NextLedger]_vars

\* u1 is registered; one post and one report exist, each owned by either
\* user and liked by u1 or by nobody
InitLikes ==
    /\ users = [u \in {"u1"} |-> UserDoc(0, 1, <<>>)]
    /\ users0 = users
    /\ \E o \in UserIds, l \in {<<>>, <<"u1">>} :
          posts = <<[user_id |-> o, likes |-> l, likes_count |-> Len(l)]>>
    /\ \E o \in UserIds, l \in {<<>>, <<"u1">>} :
          reports = <<[user_id |-> o, likes |-> l, likes_count |-> Len(l)]>>
    /\ bills = <<>>
    /\ notifications = <<>>
    /\ pc = [p \in Requests |-> "idle"]
    /\ op = [p \in Requests |-> "none"]
    /\ arg_user = [p \in Requests |-> "u1"]
    /\ arg_reward = [p \in Requests |-> "r_missing"]
    /\ arg_points = [p \in Requests |-> 0]
    /\ frame = [p \in Requests |-> NoFrame]
    /\ result = [p \in Requests |-> "none"]

\* like requests in parallel, interleaved at their store calls
NextLikes ==
    \E p \in Requests \cap 1..MaxRacing :
        \/ \E u \in UserIds, c \in LikedCollections, i \in DocIds :
              LikeFindUser(p, u, c, i)
        \/ LikeFind(p)
        \/ LikeUpdate(p)
        \/ LikeRefetch(p)
        \/ LikeNotify(p)

SpecLikes == InitLikes /\ [][NextLikes]_vars

(***************************************************************************)
(* Properties                                                              *)
(***************************************************************************)
Done(p) == pc[p] = "done"

IsClaim(p) == op[p] = "claim_reward"

Quiescent == \A p \in Requests : ~Running(p)

\* occurrences of x in the sequence s
Count(x, s) == Cardinality({i \in 1..Len(s) : s[i] = x})

\* C1: in every reachable state the stored level of every user equals
\* max(1, points // 100), also after a claim has deducted points.
C1_LevelIsFunctionOfPoints ==
    \A u \in DOMAIN users :
        users[u].level = Max(1, users[u].points \div 100)

\* C2: two claims by one user for one badge-bearing reward, started with
\* points = points_required, the badge absent and the task predicate true, and
\* nothing else running: when both have answered, exactly one answered Success
\* and the other AlreadyClaimed or InsufficientPoints.
C2_ExactlyOneClaimSucceeds ==
    \A p, q \in Requests :
        ( /\ p # q
          /\ \A o \in Requests \ {p, q} : pc[o] = "idle"
          /\ IsClaim(p) /\ IsClaim(q) /\ Done(p) /\ Done(q)
          /\ arg_user[p] = arg_user[q] /\ arg_reward[p] = arg_reward[q]
          /\ arg_user[p] \in DOMAIN users0
          /\ arg_reward[p] \in DOMAIN rewards
          /\ rewards[arg_reward[p]].badge_name # NoBadge
          /\ users0[arg_user[p]].points = rewards[arg_reward[p]].points_required
          /\ ~InSeq(rewards[arg_reward[p]].badge_name, users0[arg_user[p]].badges)
          /\ verify_task_completion(arg_user[p], rewards[arg_reward[p]]) )
        => \/ /\ result[p] = "Success"
              /\ result[q] \in {"AlreadyClaimed", "InsufficientPoints"}
           \/ /\ result[q] = "Success"
              /\ result[p] \in {"AlreadyClaimed", "InsufficientPoints"}

\* ---- claims about one request run alone (SpecAlone) ---------------------
Stepped(p) == pc'[p] # pc[p]

\* the claim has loaded the user and has neither answered nor written yet
Checking(p) == IsClaim(p) /\ pc[p] \in {"claim_find_reward", "claim_verify_task"}

RewardOf(p) == rewards[arg_reward[p]]

LedgerOf(p) == users[arg_user[p]]

HoldsBadge(p) ==
    /\ RewardOf(p).badge_name # NoBadge
    /\ \E i \in 1..Len(LedgerOf(p).badges) :
          LedgerOf(p).badges[i] = RewardOf(p).badge_name

NothingWritten == users' = users /\ notifications' = notifications

Rejected(p, error) == pc'[p] = "done" /\ result'[p] = error /\ NothingWritten

\* C3: a claim run alone with the reward existing, points >= points_required,
\* the badge not held and the task predicate true does not fail; its update
\* leaves points = prior points - points_required and badges = prior badges
\* plus the badge, which then occurs exactly once (badges unchanged for a
\* reward without badge); it then answers Success.
C3_ClaimAloneSucceeds ==
    [][\A p \in Requests : Stepped(p) =>
          /\ ( /\ pc[p] = "idle" /\ op'[p] = "claim_reward"
               /\ arg_user'[p] \in DOMAIN users )
             => pc'[p] = "claim_find_reward" /\ NothingWritten
          /\ ( /\ Checking(p)
               /\ arg_reward[p] \in DOMAIN rewards
               /\ LedgerOf(p).points >= RewardOf(p).points_required
               /\ ~HoldsBadge(p)
               /\ verify_task_completion(arg_user[p], RewardOf(p)) )
             => /\ pc'[p] \in {"claim_verify_task", "claim_update_user"}
                /\ NothingWritten
          /\ (IsClaim(p) /\ pc[p] = "claim_update_user")
             => /\ users'[arg_user[p]].points =
                      LedgerOf(p).points - RewardOf(p).points_required
                /\ users'[arg_user[p]].badges =
                      IF RewardOf(p).badge_name = NoBadge THEN LedgerOf(p).badges
                      ELSE LedgerOf(p).badges \o <<RewardOf(p).badge_name>>
                /\ RewardOf(p).badge_name # NoBadge =>
                      Count(RewardOf(p).badge_name, users'[arg_user[p]].badges) = 1
          /\ (IsClaim(p) /\ pc[p] = "claim_notify")
             => pc'[p] = "done" /\ result'[p] = "Success" /\ users' = users
      ]_vars

C3_Witness ==
    \E p \in Requests :
        /\ IsClaim(p) /\ Done(p) /\ result[p] = "Success"
        /\ RewardOf(p).badge_name # NoBadge
        /\ LedgerOf(p).badges = <<"storyteller", RewardOf(p).badge_name>>
        /\ LedgerOf(p).points = 150

\* C4: a claim run alone with the reward existing and points < points_required
\* answers InsufficientPoints whatever the task predicate and the badges are,
\* and writes neither the user nor a notification.
C4_InsufficientPointsRejected ==
    [][\A p \in Requests :
          ( /\ Stepped(p) /\ Checking(p)
            /\ arg_reward[p] \in DOMAIN rewards
            /\ LedgerOf(p).points < RewardOf(p).points_required )
          => Rejected(p, "InsufficientPoints")
      ]_vars

C4_Witness ==
    \E p \in Requests :
        /\ IsClaim(p) /\ Done(p) /\ result[p] = "InsufficientPoints"
        /\ ~verify_task_completion(arg_user[p], RewardOf(p))
        /\ LedgerOf(p).points < RewardOf(p).points_required
        /\ notifications = <<>>

\* C5: a claim run alone for a reward whose badge the user holds, with
\* sufficient points, answers AlreadyClaimed whatever the task predicate is,
\* and writes neither the user nor a notification.
C5_AlreadyClaimedRejected ==
    [][\A p \in Requests :
          ( /\ Stepped(p) /\ Checking(p)
            /\ arg_reward[p] \in DOMAIN rewards
            /\ LedgerOf(p).points >= RewardOf(p).points_required
            /\ HoldsBadge(p) )
          => Rejected(p, "AlreadyClaimed")
      ]_vars

C5_Witness ==
    \E p \in Requests :
        /\ IsClaim(p) /\ Done(p) /\ result[p] = "AlreadyClaimed"
        /\ LedgerOf(p).points >= RewardOf(p).points_required
        /\ Len(LedgerOf(p).badges) = 2
        /\ LedgerOf(p).badges[2] = RewardOf(p).badge_name

\* C6: a claim run alone with the reward existing, sufficient points, the
\* badge not held and the oracle false answers TaskIncomplete and writes
\* neither the user nor a notification.
C6_TaskIncompleteRejected ==
    [][\A p \in Requests :
          ( /\ Stepped(p) /\ Checking(p)
            /\ arg_reward[p] \in DOMAIN rewards
            /\ LedgerOf(p).points >= RewardOf(p).points_required
            /\ ~HoldsBadge(p)
            /\ ~verify_task_completion(arg_user[p], RewardOf(p)) )
          => /\ NothingWritten
             /\ IF pc[p] = "claim_find_reward"
                THEN pc'[p] = "claim_verify_task"
                ELSE pc'[p] = "done" /\ result'[p] = "TaskIncomplete"
      ]_vars

C6_Witness ==
    \E p \in Requests :
        /\ IsClaim(p) /\ Done(p) /\ result[p] = "TaskIncomplete"
        /\ LedgerOf(p).points >= RewardOf(p).points_required
        /\ ~HoldsBadge(p)

\* C7: a claim run alone reports the first failing check in the order
\* NotFound, InsufficientPoints, AlreadyClaimed, TaskIncomplete: a missing
\* reward gives NotFound; too few points with the badge held gives
\* InsufficientPoints; the badge held with the task not completed gives
\* AlreadyClaimed.
C7_ChecksInFixedOrder ==
    [][\A p \in Requests : (Stepped(p) /\ Checking(p)) =>
          /\ arg_reward[p] \notin DOMAIN rewards => Rejected(p, "NotFound")
          /\ ( /\ arg_reward[p] \in DOMAIN rewards
               /\ LedgerOf(p).points < RewardOf(p).points_required
               /\ HoldsBadge(p) )
             => Rejected(p, "InsufficientPoints")
          /\ ( /\ arg_reward[p] \in DOMAIN rewards
               /\ LedgerOf(p).points >= RewardOf(p).points_required
               /\ HoldsBadge(p)
               /\ ~verify_task_completion(arg_user[p], RewardOf(p)) )
             => Rejected(p, "AlreadyClaimed")
      ]_vars

C7_Witness ==
    \E p, q \in Requests :
        /\ IsClaim(p) /\ Done(p) /\ result[p] = "AlreadyClaimed"
        /\ LedgerOf(p).points = RewardOf(p).points_required
        /\ ~verify_task_completion(arg_user[p], RewardOf(p))
        /\ IsClaim(q) /\ Done(q) /\ result[q] = "InsufficientPoints"
        /\ arg_user[q] = arg_user[p]
        /\ InSeq(RewardOf(q).badge_name, LedgerOf(q).badges)

\* C8: add_points(user_id, d) run alone for an existing user and d >= 0
\* returns True and leaves points = old points + d and
\* level = max(1, (old points + d) // 100).
C8_AddPointsAlone ==
    [][\A p \in Requests : Stepped(p) =>
          /\ ( /\ pc[p] = "idle" /\ op'[p] = "add_points"
               /\ arg_user'[p] \in DOMAIN users /\ arg_points'[p] >= 0 )
             => pc'[p] = "add_points_update" /\ users' = users
          /\ (pc[p] = "add_points_update" /\ arg_points[p] >= 0)
             => /\ pc'[p] = "done"
                /\ op[p] = "add_points" => result'[p] = "True"
                /\ users'[arg_user[p]].points = LedgerOf(p).points + arg_points[p]
                /\ users'[arg_user[p]].level =
                      Max(1, (LedgerOf(p).points + arg_points[p]) \div 100)
      ]_vars

C8_Witness ==
    \E p \in Requests :
        /\ op[p] = "add_points" /\ Done(p) /\ result[p] = "True"
        /\ arg_points[p] = 100
        /\ LedgerOf(p).points = 200 /\ LedgerOf(p).level = 2

\* C9: add_points for a user id that does not exist returns False, raises
\* nothing, and creates or modifies no user record.
C9_AddPointsUnknownUser ==
    [][\A p \in Requests :
          ( /\ Stepped(p) /\ pc[p] = "idle" /\ op'[p] = "add_points"
            /\ arg_user'[p] \notin DOMAIN users )
          => pc'[p] = "done" /\ result'[p] = "False" /\ users' = users
      ]_vars

C9_Witness ==
    \E p \in Requests :
        /\ op[p] = "add_points" /\ Done(p) /\ result[p] = "False"
        /\ arg_user[p] \notin DOMAIN users
        /\ arg_points[p] > 0

\* ---- claims about the ledger under parallel requests (Spec) --------------
\* what request p has moved on the ledger of user u, by what it answered
RECURSIVE LedgerMoves(_, _)
LedgerMoves(u, n) ==
    IF n = 0 THEN 0
    ELSE LedgerMoves(u, n - 1) +
         ( IF ~Done(n) \/ arg_user[n] # u THEN 0
           ELSE IF op[n] = "add_points" /\ result[n] = "True" THEN arg_points[n]
           ELSE IF op[n] = "create_post" /\ result[n] = "Created" THEN arg_points[n]
           ELSE IF op[n] = "claim_reward" /\ result[n] = "Success"
                THEN 0 - rewards[arg_reward[n]].points_required
           ELSE 0 )

\* C10: once every add_points and claim_reward call has completed, the stored
\* points of a user are the initial points plus the deltas of its add_points
\* calls minus points_required of its successful claims.
C10_NoLedgerUpdateLost ==
    Quiescent =>
        \A u \in DOMAIN users :
            users[u].points = users0[u].points + LedgerMoves(u, NRequests)

\* C11: in every reachable state, under every interleaving of claims, no
\* badge name occurs more than once in the badges of a user.
C11_BadgesUnique ==
    \A u \in DOMAIN users :
        \A i, j \in 1..Len(users[u].badges) :
            users[u].badges[i] = users[u].badges[j] => i = j

\* two claims raced: the second loaded the user before the first wrote
C11_Witness ==
    \E p, q \in Requests :
        /\ p # q /\ IsClaim(p) /\ IsClaim(q)
        /\ arg_user[p] = arg_user[q] /\ arg_reward[p] = arg_reward[q]
        /\ result[p] = "Success" /\ result[q] = "Success"
        /\ rewards[arg_reward[p]].badge_name # NoBadge
        /\ Len(users[arg_user[p]].badges) = 2

\* C12: in every reachable state, under every interleaving of add_points
\* calls with deltas >= 0 and claims of rewards with points_required >= 0,
\* the stored points of every user are >= 0.
C12_PointsNonNegative ==
    \A u \in DOMAIN users : users[u].points >= 0

\* two claims raced from points = points_required and both succeeded
C12_Witness ==
    \E p, q \in Requests :
        /\ p # q /\ IsClaim(p) /\ IsClaim(q)
        /\ arg_user[p] = arg_user[q]
        /\ result[p] = "Success" /\ result[q] = "Success"
        /\ users0[arg_user[p]].points <
              rewards[arg_reward[p]].points_required
                + rewards[arg_reward[q]].points_required
        /\ users[arg_user[p]].points = 0

\* p and q are the only requests started: two claims by one user of the same
\* reward, both past every check and answered
TwoClaimsDone(p, q) ==
    /\ p # q /\ IsClaim(p) /\ IsClaim(q)
    /\ arg_user[p] = arg_user[q] /\ arg_reward[p] = arg_reward[q]
    /\ result[p] = "Success" /\ result[q] = "Success"
    /\ \A o \in Requests \ {p, q} : pc[o] = "idle"

ClaimWrites(p) ==
    IsClaim(p) /\ pc[p] = "claim_update_user" /\ pc'[p] = "claim_notify"

\* C14: a claim persists the new points and the new badge list in one single
\* update of the user record: the step that deducts the points of a claim
\* (loaded points - points_required) is the step that puts its badge in
\* badges, and no other step of any request changes the badges of a user, so
\* no state lies between the deduction and the badge.
C14_PointsAndBadgeInOneUpdate ==
    [][/\ \A p \in Requests :
             ClaimWrites(p) =>
                 /\ users'[arg_user[p]].points
                      = frame[p].user_points - RewardOf(p).points_required
                 /\ RewardOf(p).badge_name # NoBadge =>
                      Count(RewardOf(p).badge_name,
                            users'[arg_user[p]].badges) = 1
                 /\ RewardOf(p).badge_name = NoBadge =>
                      users'[arg_user[p]].badges = LedgerOf(p).badges
       /\ \A u \in DOMAIN users :
             users'[u].badges # users[u].badges =>
                 \E p \in Requests : ClaimWrites(p) /\ arg_user[p] = u
       /\ \A p \in Requests :
             (IsClaim(p) /\ Stepped(p) /\ ~ClaimWrites(p)) => users' = users
      ]_vars

\* a claim of a badge reward has just sent its update: the stored record
\* holds the deducted points and the badge, and nothing else was sent yet
C14_Witness ==
    \E p \in Requests :
        /\ IsClaim(p) /\ pc[p] = "claim_notify"
        /\ RewardOf(p).badge_name # NoBadge
        /\ LedgerOf(p).points
              = users0[arg_user[p]].points - RewardOf(p).points_required
        /\ InSeq(RewardOf(p).badge_name, LedgerOf(p).badges)
        /\ ~InSeq(RewardOf(p).badge_name, users0[arg_user[p]].badges)
        /\ notifications = <<>>

(***************************************************************************)
(* The task completion oracle                                              *)
(***************************************************************************)
\* request p takes the step that calls the oracle on its own
OracleStep(p) ==
    pc[p] = "idle" /\ pc'[p] = "done" /\ op'[p] = "verify_task_completion"

\* the same step with every store call answering
OracleAnswers(p) == OracleCall(p, arg_user'[p], arg_reward'[p], FALSE)

\* request p has called the oracle about a reward of task type t
Asked(p, t) ==
    op[p] = "verify_task_completion" /\ Done(p) /\ arg_reward[p][1] = t

\* number of documents of a collection owned by user u
Owned(docs, u) == Cardinality({i \in DOMAIN docs : docs[i].user_id = u})

\* likes on the documents of a collection owned by user u, counted like by like
LikesOn(docs, u) ==
    LET most == CHOOSE m \in LikeCounts : \A l \in LikeCounts : l <= m
    IN  Cardinality({<<i, k>> \in (DOMAIN docs) \X (1..most) :
                        docs[i].user_id = u /\ k <= docs[i].likes_count})

\* C15: for task types posts_created, reports_created and bills_uploaded the
\* oracle returns true if and only if the number of post, report or bill
\* records owned by the user at the time of the call is >= task_count.
C15_CountPredicates ==
    [][\A p \in Requests :
          (OracleStep(p) /\ OracleAnswers(p)) =>
              LET u == arg_user'[p]
                  n == arg_reward'[p][2]
                  t == arg_reward'[p][1]
              IN  /\ t = "posts_created" =>
                        (result'[p] = "True" <=> Owned(posts, u) >= n)
                  /\ t = "reports_created" =>
                        (result'[p] = "True" <=> Owned(reports, u) >= n)
                  /\ t = "bills_uploaded" =>
                        (result'[p] = "True" <=> Owned(bills, u) >= n)
      ]_vars

\* the user owns one of two bills and is asked for one
C15_Witness ==
    \E p \in Requests :
        /\ Asked(p, "bills_uploaded") /\ arg_reward[p][2] = 1
        /\ result[p] = "True"
        /\ Len(bills) = 2 /\ Owned(bills, arg_user[p]) = 1

\* C16: for level_reached the oracle returns true if and only if the stored
\* level of the user is >= task_count, for carbon_saved if and only if the
\* stored carbon_footprint_saved is >= task_count; the stored fields are read
\* as they are, whatever the points and the bills say (false when there is
\* no user record).
C16_StoredFieldPredicates ==
    [][\A p \in Requests :
          (OracleStep(p) /\ OracleAnswers(p)) =>
              LET u == arg_user'[p]
                  n == arg_reward'[p][2]
                  t == arg_reward'[p][1]
              IN  /\ t = "level_reached" =>
                        (result'[p] = "True" <=>
                            (u \in DOMAIN users /\ users[u].level >= n))
                  /\ t = "carbon_saved" =>
                        (result'[p] = "True" <=>
                            (u \in DOMAIN users
                               /\ users[u].carbon_footprint_saved >= n * 100))
      ]_vars

\* level 3 is reached on the stored level although the points are 0
C16_Witness ==
    \E p \in Requests :
        /\ Asked(p, "level_reached") /\ arg_reward[p][2] = 3
        /\ result[p] = "True"
        /\ arg_user[p] \in DOMAIN users
        /\ LedgerOf(p).points = 0 /\ LedgerOf(p).level = 3

\* C17: for likes_received the oracle returns true if and only if the sum of
\* likes_count over the posts owned by the user plus the sum of likes_count
\* over the reports owned by the user is >= task_count.
C17_LikesPredicate ==
    [][\A p \in Requests :
          (OracleStep(p) /\ OracleAnswers(p)
             /\ arg_reward'[p][1] = "likes_received") =>
              (result'[p] = "True" <=>
                  LikesOn(posts, arg_user'[p]) + LikesOn(reports, arg_user'[p])
                      >= arg_reward'[p][2])
      ]_vars

\* the likes counted are on a post and on a report of the user
C17_Witness ==
    \E p \in Requests :
        /\ Asked(p, "likes_received") /\ arg_reward[p][2] = 3
        /\ result[p] = "True"
        /\ LikesOn(posts, arg_user[p]) = 2
        /\ LikesOn(reports, arg_user[p]) = 2

\* C18: for a task type outside the six recognised ones the oracle returns
\* true for every user and every task_count, so a claim of a reward with such
\* a task type by a user who has the points and does not hold the badge
\* passes every check and is never answered TaskIncomplete.
C18_UnrecognisedTaskIsTrue ==
    [][\A p \in Requests :
          /\ (OracleStep(p) /\ arg_reward'[p][1] \notin RecognisedTasks) =>
                 result'[p] = "True"
          /\ ( /\ Stepped(p) /\ Checking(p)
               /\ arg_reward[p] \in DOMAIN rewards
               /\ RewardOf(p).task_type \notin RecognisedTasks
               /\ LedgerOf(p).points >= RewardOf(p).points_required
               /\ ~HoldsBadge(p) )
             => /\ NothingWritten
                /\ pc'[p] = IF pc[p] = "claim_find_reward"
                            THEN "claim_verify_task" ELSE "claim_update_user"
      ]_vars

\* a user without posts, reports or bills claimed a reward with an
\* unrecognised task type
C18_Witness ==
    \E p \in Requests :
        /\ IsClaim(p) /\ Done(p) /\ result[p] = "Success"
        /\ arg_reward[p] \in DOMAIN rewards
        /\ RewardOf(p).task_type \notin RecognisedTasks
        /\ Owned(posts, arg_user[p]) + Owned(reports, arg_user[p])
              + Owned(bills, arg_user[p]) = 0

\* C19: the oracle fails closed: when a store call inside a predicate raises,
\* or there is no user record for carbon_saved or level_reached, it returns
\* false (an answer, not an error), and a claim whose call of the oracle
\* fails this way ends with TaskIncomplete, nothing written.
C19_OracleFailsClosed ==
    [][\A p \in Requests :
          /\ OracleStep(p) => result'[p] \in {"True", "False"}
          /\ ( /\ OracleStep(p)
               /\ arg_reward'[p][1] \in RecognisedTasks
               /\ OracleCall(p, arg_user'[p], arg_reward'[p], TRUE) )
             => result'[p] = "False"
          /\ ( /\ OracleStep(p)
               /\ arg_reward'[p][1] \in {"carbon_saved", "level_reached"}
               /\ arg_user'[p] \notin DOMAIN users )
             => result'[p] = "False"
          /\ ( /\ ClaimVerifyTaskRaising(p)
               /\ RewardOf(p).task_type \in RecognisedTasks )
             => Rejected(p, "TaskIncomplete")
      ]_vars

\* a claim was answered TaskIncomplete although the user has the points, does
\* not hold the badge, and has completed the task: the oracle's store call
\* raised
C19_Witness ==
    \E p \in Requests :
        /\ IsClaim(p) /\ Done(p) /\ result[p] = "TaskIncomplete"
        /\ RewardOf(p).task_type \in RecognisedTasks
        /\ Owned(posts, arg_user[p]) >= 1 \/ LedgerOf(p).level >= 2
        /\ verify_task_completion(arg_user[p], RewardOf(p))
        /\ LedgerOf(p) = users0[arg_user[p]]
        /\ notifications = <<>>

(***************************************************************************)
(* Usage comparison                                                        *)
(***************************************************************************)
\* positions of the bills of user u and type t
BillsOf(u, t) == {i \in DOMAIN bills : bills[i].user_id = u /\ bills[i].type = t}

\* how many bills of the same user and type are more recent than bill i
NewerThan(i) ==
    Cardinality({j \in BillsOf(bills[i].user_id, bills[i].type) :
                    bills[j].created_at > bills[i].created_at})

\* C20: get_usage_comparison(user_id, bill_type) returns None if and only if
\* fewer than 2 bills exist for that user and type; otherwise current_usage
\* and previous_usage are the usage amounts of the most recent and of the
\* second most recent such bill by created_at, and usage_difference =
\* current_usage - previous_usage.
C20_UsageComparison ==
    \A p \in Requests :
        (op[p] = "get_usage_comparison" /\ Done(p)) =>
            LET mine == BillsOf(arg_user[p], arg_reward[p])
            IN  /\ result[p] = NoComparison <=> Cardinality(mine) < 2
                /\ Cardinality(mine) >= 2 =>
                      /\ \A i \in mine :
                            /\ NewerThan(i) = 0 =>
                                  result[p].current_usage = bills[i].usage_amount
                            /\ NewerThan(i) = 1 =>
                                  result[p].previous_usage = bills[i].usage_amount
                      /\ result[p].usage_difference
                            = result[p].current_usage - result[p].previous_usage

\* previous 100, current 80 gives -20, with an older bill of the same kind and
\* the most recent bill not the last one inserted
C20_Witness ==
    \E p \in Requests :
        /\ op[p] = "get_usage_comparison" /\ Done(p)
        /\ Cardinality(BillsOf(arg_user[p], arg_reward[p])) = 3
        /\ NewerThan(Len(bills)) > 0
        /\ result[p] # NoComparison
        /\ result[p].previous_usage = 100
        /\ result[p].current_usage = 80
        /\ result[p].usage_difference = -20

\* the comparison request p got back
ComparisonOf(p) == result[p]

\* request p asked for a comparison and got one
Compared(p) ==
    op[p] = "get_usage_comparison" /\ Done(p) /\ ComparisonOf(p) # NoComparison

\* C21: in a comparison, percentage_change equals usage_difference /
\* previous_usage * 100 for every previous_usage other than 0, negative values
\* included, and equals 0 when previous_usage = 0.
C21_PercentageChange ==
    \A p \in Requests :
        Compared(p) =>
            LET c == ComparisonOf(p)
            IN  IF c.previous_usage # 0
                THEN c.percentage_change.num * c.previous_usage
                       = c.usage_difference * 100 * c.percentage_change.den
                ELSE c.percentage_change.num = 0

(***************************************************************************)
(* Carbon savings                                                          *)
(***************************************************************************)
\* request p asked for the savings of reduction n of bill type t, in 1/100 kg
Saved(p, t, n) ==
    /\ op[p] = "calculate_carbon_savings" /\ Done(p)
    /\ arg_reward[p] = t /\ arg_points[p] = n

\* C23: calculate_carbon_savings(bill_type, usage_reduction) returns
\* usage_reduction times a factor that depends on bill_type only (electricity
\* 0.5, water 0.0003, gas 2.0, anything else 0.5) rounded to 2 decimals: a
\* whole number of hundredths at most half a hundredth away from the product;
\* ('electricity', 100) gives 50.0 and ('water', 1000) gives 0.3.
C23_CarbonSavings ==
    \A p \in Requests :
        (op[p] = "calculate_carbon_savings" /\ Done(p)) =>
            LET n == arg_points[p]
                t == arg_reward[p]
                \* the product in 1/10000 kg
                product == IF t = "water" THEN n * 3
                           ELSE IF t = "gas" THEN n * 20000
                           ELSE n * 5000
                off == result[p] * 100 - product
            IN  /\ off <= 50 /\ -off <= 50
                /\ Saved(p, "electricity", 100) => result[p] = 5000
                /\ Saved(p, "water", 1000) => result[p] = 30

\* 0.3 kg for 1000 liters of water
C23_Witness ==
    \E p \in Requests : Saved(p, "water", 1000) /\ result[p] = 30

(***************************************************************************)
(* Manual bill entry                                                       *)
(***************************************************************************)
IsEntry(p) == op[p] = "manual_entry"

\* request p takes a step of its manual entry from position label
EntryStep(p, label) == IsEntry(p) /\ pc[p] = label /\ Stepped(p)

\* the usage of the bill of user u and type t that has n more recent ones
UsageAt(u, t, n) ==
    LET i == CHOOSE j \in BillsOf(u, t) : NewerThan(j) = n
    IN  bills[i].usage_amount

\* the stored bills of user u and type t show a reduction: there are two, and
\* the most recent has a lower usage than the one before
Reduced(u, t) ==
    /\ Cardinality(BillsOf(u, t)) >= 2
    /\ UsageAt(u, t, 0) < UsageAt(u, t, 1)

\* C22: a manual entry credits the user (carbon_footprint_saved increment,
\* points award, achievement notification) if and only if, when it compares,
\* a comparison exists for the bill type and its usage_difference is < 0;
\* with equal or higher usage, or fewer than 2 bills, it writes nothing to
\* the user record and creates no notification.
C22_CreditIffReduction ==
    [][\A p \in Requests :
          /\ EntryStep(p, "entry_compare") =>
                IF Reduced(arg_user[p], arg_reward[p])
                THEN pc'[p] = "entry_inc_carbon" /\ NothingWritten
                ELSE pc'[p] = "done" /\ NothingWritten
          /\ (IsEntry(p) /\ Stepped(p)
                 /\ pc[p] \in {"idle", "entry_insert", "entry_compare"})
               => NothingWritten
          /\ EntryStep(p, "entry_inc_carbon") =>
                /\ pc'[p] = "entry_add_points"
                /\ users' = [users EXCEPT ![arg_user[p]].carbon_footprint_saved =
                                 @ + frame[p].carbon_saved]
          /\ EntryStep(p, "entry_add_points") => pc'[p] = "entry_points_update"
          /\ EntryStep(p, "entry_points_update") =>
                /\ pc'[p] = "entry_notify"
                /\ users'[arg_user[p]].points = frame[p].new_points
          /\ EntryStep(p, "entry_notify") =>
                /\ Len(notifications') = Len(notifications) + 1
                /\ notifications'[Len(notifications')].type = "achievement"
                /\ notifications'[Len(notifications')].user_id = arg_user[p]
      ]_vars

\* an entry of 80 after a bill of 100 was credited: 10 kg, 20 points and a
\* notification
C22_Witness ==
    \E p \in Requests :
        /\ IsEntry(p) /\ Done(p) /\ arg_points[p] = 80
        /\ Len(bills) = 2 /\ bills[1].usage_amount = 100
        /\ LedgerOf(p).carbon_footprint_saved = 1000
        /\ LedgerOf(p).points = users0[arg_user[p]].points + 20
        /\ Len(notifications) = 1 /\ notifications[1].type = "achievement"

\* C27: the points one manual entry that reduces usage awards are
\* min(50, floor(|percentage_change|)), between 0 and 50 inclusive however
\* large the reduction; that amount is what add_points adds.
C27_PointsEarnedCapped ==
    [][\A p \in Requests :
          /\ EntryStep(p, "entry_inc_carbon") =>
                LET change == frame[p].comparison.percentage_change
                    size   == IF change.num < 0 THEN -change.num ELSE change.num
                    earned == frame'[p].points_earned
                IN  /\ earned \in 0..50
                    /\ \/ earned = 50 /\ size >= 50 * change.den
                       \/ /\ earned < 50
                          /\ earned * change.den <= size
                          /\ size < (earned + 1) * change.den
          /\ EntryStep(p, "entry_add_points") =>
                frame'[p].new_points = LedgerOf(p).points + frame[p].points_earned
      ]_vars

\* an entry of 40 after a bill of 100, a reduction of 60 percent, earned 50
\* points
C27_Witness ==
    \E p \in Requests :
        /\ IsEntry(p) /\ Done(p) /\ Len(bills) = 2 /\ Len(notifications) = 1
        /\ bills[1].usage_amount = 100 /\ bills[2].usage_amount = 40
        /\ notifications[1].points_earned = 50
        /\ LedgerOf(p).points = users0[arg_user[p]].points + 50

\* the request data of entry p: registered user, every required field, valid type
ValidEntry(p) ==
    /\ arg_user[p] \in DOMAIN users
    /\ \E input \in EntryInputs :
          /\ input[1] = arg_reward[p] /\ input[2] = arg_points[p]
          /\ EntryValidation(input[1], input[2], input[3]) = "ok"

EntryFailed(p) == IsEntry(p) /\ Done(p) /\ result[p] # "Created"

\* C28: a manual entry with valid fields and a valid type returns the success
\* outcome with the id of its bill; whenever manual_entry returns an error
\* outcome no bill has been stored and the user's points, level and
\* carbon_footprint_saved are unchanged (stated for the states in which every
\* request made so far has returned an error).
C28_EntryOutcome ==
    /\ \A p \in Requests :
          (IsEntry(p) /\ Done(p) /\ ValidEntry(p)) => result[p] = "Created"
    /\ (\A p \in Requests : pc[p] = "idle" \/ EntryFailed(p))
          => (bills = <<>> /\ users = users0)

\* the bills that follow a bill of the same user and type with a higher usage
ReducingBills ==
    {i \in DOMAIN bills :
        \E j \in BillsOf(bills[i].user_id, bills[i].type) :
            /\ NewerThan(j) = NewerThan(i) + 1
            /\ bills[i].usage_amount < bills[j].usage_amount}

\* C29: the comparison a manual entry credits has the bill that request
\* created as its current record, and each consecutive pair of bills of one
\* type is credited at most once, also when two entries overlap.
C29_CreditsOwnBill ==
    [][/\ \A p \in Requests :
             (EntryStep(p, "entry_compare") /\ pc'[p] = "entry_inc_carbon") =>
                 \A i \in BillsOf(arg_user[p], arg_reward[p]) :
                     NewerThan(i) = 0 => bills[i].created_at = frame[p].bill_at
        /\ Len(notifications') <= Cardinality(ReducingBills')
      ]_vars

(***************************************************************************)
(* The carbon accumulator                                                  *)
(***************************************************************************)
\* C24: every user's carbon_footprint_saved is >= 0 in every reachable state,
\* and no step of a manual bill entry, a report creation, add_points or a
\* claim decreases it.
C24_CarbonNeverDecreases ==
    [][\A u \in DOMAIN users :
          /\ users[u].carbon_footprint_saved >= 0
          /\ u \in DOMAIN users'
          /\ users'[u].carbon_footprint_saved >= users[u].carbon_footprint_saved
      ]_vars

\* a bill entry (80 after 100: 10 kg) and a report (5 kg) have both added to
\* the accumulator
C24_Witness ==
    /\ users["u1"].carbon_footprint_saved = 1500
    /\ \E p, q \in Requests :
          /\ op[p] = "manual_entry" /\ Done(p)
          /\ op[q] = "create_report" /\ Done(q)

(***************************************************************************)
(* Notifications of claims                                                 *)
(***************************************************************************)
ClaimErrors == {"UserNotFound", "NotFound", "InsufficientPoints",
                "AlreadyClaimed", "TaskIncomplete"}

\* the claims that have answered Success
Succeeded == {p \in Requests : IsClaim(p) /\ Done(p) /\ result[p] = "Success"}

\* position i of notifications holds the reward notification of claim p
NotifiedAt(i, p) ==
    /\ notifications[i].type = "reward"
    /\ notifications[i].user_id = arg_user[p]
    /\ notifications[i].reward_id = arg_reward[p]

\* C25: every claim that returns Success creates exactly one reward-claimed
\* notification for the claiming user, after its update of points and badges
\* is persisted; a claim that fails with NotFound, InsufficientPoints,
\* AlreadyClaimed or TaskIncomplete creates none.
C25_OneNotificationPerSuccess ==
    [][/\ \A p \in Requests :
             (IsClaim(p)' /\ Stepped(p)) =>
                 IF pc'[p] = "done" /\ result'[p] = "Success"
                 THEN /\ pc[p] = "claim_notify"
                      /\ Len(notifications') = Len(notifications) + 1
                      /\ notifications'[Len(notifications')] =
                            [user_id |-> arg_user[p], type |-> "reward",
                             reward_id |-> arg_reward[p]]
                      /\ \A i \in DOMAIN notifications :
                            notifications'[i] = notifications[i]
                      /\ users' = users
                 ELSE /\ notifications' = notifications
                      /\ pc'[p] = "done" => result'[p] \in ClaimErrors
                      /\ pc'[p] = "claim_notify" =>
                            /\ pc[p] = "claim_update_user"
                            /\ users'[arg_user[p]].points = frame[p].new_points
        /\ Len(notifications') = Cardinality(Succeeded')
      ]_vars

\* one claim answered Success and left one notification; another claim was
\* refused and left none
C25_Witness ==
    \E p, q \in Requests :
        /\ p \in Succeeded
        /\ IsClaim(q) /\ Done(q) /\ result[q] \in ClaimErrors \ {"UserNotFound"}
        /\ Len(notifications) = 1 /\ NotifiedAt(1, p)
        /\ LedgerOf(p).points = users0[arg_user[p]].points - RewardOf(p).points_required

(***************************************************************************)
(* Rewards without a badge                                                 *)
(***************************************************************************)
\* request p claims an existing reward that has no badge_name
ClaimsPlain(p) ==
    /\ IsClaim(p)
    /\ arg_reward[p] \in DOMAIN rewards
    /\ RewardOf(p).badge_name = NoBadge

\* the claims of user u of reward r that answered Success
SucceededOn(u, r) ==
    {p \in Succeeded : arg_user[p] = u /\ arg_reward[p] = r}

\* C26: a reward without badge_name never yields AlreadyClaimed: claimed in
\* sequence by the same user, each claim succeeds and deducts points_required
\* for as long as points >= points_required and the task predicate is true,
\* however many claims of it succeeded before; badges is left unchanged.
C26_PlainRewardRepeatable ==
    [][\A p \in Requests : (ClaimsPlain(p) /\ Stepped(p)) =>
          /\ result'[p] # "AlreadyClaimed"
          /\ ( /\ Checking(p)
               /\ LedgerOf(p).points >= RewardOf(p).points_required
               /\ verify_task_completion(arg_user[p], RewardOf(p)) )
             => pc'[p] \in {"claim_verify_task", "claim_update_user"}
          /\ pc[p] = "claim_update_user" =>
                /\ pc'[p] = "claim_notify"
                /\ users'[arg_user[p]].points =
                      LedgerOf(p).points - RewardOf(p).points_required
                /\ users'[arg_user[p]].badges = LedgerOf(p).badges
          /\ pc[p] = "claim_notify" =>
                /\ pc'[p] = "done" /\ result'[p] = "Success"
                /\ users' = users
      ]_vars

\* the same user claimed the badge-less reward three times in sequence: three
\* Success answers, 3 * points_required deducted, badges as before
C26_Witness ==
    /\ Cardinality(SucceededOn("u1", "r_plain")) = 3
    /\ users["u1"].points = users0["u1"].points - 3 * rewards["r_plain"].points_required
    /\ users["u1"].badges = users0["u1"].badges
    /\ Len(notifications) = 3

(***************************************************************************)
(* Likes                                                                   *)
(***************************************************************************)
\* likes_count is the number of entries of likes, and no user is in it twice
LikesConsistent(doc) ==
    /\ doc.likes_count = Len(doc.likes)
    /\ \A i, j \in DOMAIN doc.likes : doc.likes[i] = doc.likes[j] => i = j

\* C30: for every post and every report, in every reachable state under any
\* interleaving of like-toggle calls, likes_count equals the number of
\* entries in likes and no user id occurs in likes more than once.
C30_LikesConsistent ==
    /\ \A i \in DOMAIN posts : LikesConsistent(posts[i])
    /\ \A i \in DOMAIN reports : LikesConsistent(reports[i])


====
